---------------------------- MODULE Spec2Model ----------------------------
(***************************************************************************)
(* A model of the jwt package: the Encoder/Decoder facade (jwt.go), the    *)
(* token parser (parseJWT, parseHeader, parsePayload, padB64String) and    *)
(* the validators (none, HMAC, RSA, ECDSA).                                *)
(*                                                                         *)
(* Strings and byte slices are sequences of naturals.  A character of a    *)
(* token is a number: 0..63 are the base64url digits (their 6-bit value),  *)
(* and PAD, DOT, SP, NL, BAD are '=', '.', ' ', a new line and a character *)
(* outside the alphabet.  Bytes are 0..255.  The library calls are         *)
(* modelled by what they do: encoding/base64 bit for bit, encoding/json by *)
(* a small byte grammar with the same failure modes, and the cryptographic *)
(* primitives by deterministic functions with shortened digests that keep  *)
(* the length of each digest modulo 3 (which decides the '=' padding).     *)
(***************************************************************************)
EXTENDS Integers, Sequences, FiniteSets, TLC

(***************************************************************************)
(* Characters and errors                                                   *)
(***************************************************************************)
PAD == 64
DOT == 65
SP == 66
NL == 67
BAD == 68

IsDigit(c) == c >= 0 /\ c <= 63

\* a nil byte slice, as opposed to the empty slice <<>>
Nil == << -1 >>

\* string(b) of a byte slice: nil converts to the empty string
Str(b) == IF b = Nil THEN << >> ELSE b

ErrNil == "nil"
ErrMalformedToken == "ErrMalformedToken"
ErrBadSignature == "ErrBadSignature"
ErrAlgorithmNotImplemented == "ErrAlgorithmNotImplemented"
\* the error of base64.URLEncoding.DecodeString
CorruptInputError == "base64.CorruptInputError"
\* the error of the test double of jwt_test.go
ErrTestValidator == "ErrTestValidator"
\* errors.New("Cannot sign with a nil private key")
ErrNilPrivateKey == "Cannot sign with a nil private key"
\* a run-time panic (nil function or nil pointer dereference)
Panic == "panic"

(***************************************************************************)
(* encoding/base64, URLEncoding (padded, not strict)                       *)
(***************************************************************************)
RECURSIVE B64Encode(_)
B64Encode(bs) ==
  IF Len(bs) = 0 THEN << >>
  ELSE IF Len(bs) = 1 THEN
    << bs[1] \div 4, (bs[1] % 4) * 16, PAD, PAD >>
  ELSE IF Len(bs) = 2 THEN
    << bs[1] \div 4, (bs[1] % 4) * 16 + (bs[2] \div 16), (bs[2] % 16) * 4, PAD >>
  ELSE
    << bs[1] \div 4, (bs[1] % 4) * 16 + (bs[2] \div 16),
       (bs[2] % 16) * 4 + (bs[3] \div 64), bs[3] % 64 >>
      \o B64Encode(SubSeq(bs, 4, Len(bs)))

\* the decoder skips '\r' and '\n' wherever they stand
RECURSIVE DropNL(_)
DropNL(s) ==
  IF Len(s) = 0 THEN << >>
  ELSE IF s[1] = NL THEN DropNL(Tail(s))
  ELSE << s[1] >> \o DropNL(Tail(s))

B64Fail == [ok |-> FALSE, bytes |-> << >>]

\* one quantum of four characters at a time; the unused low bits of the last
\* digit before the padding are not checked
RECURSIVE B64Quanta(_)
B64Quanta(s) ==
  IF Len(s) = 0 THEN [ok |-> TRUE, bytes |-> << >>]
  ELSE IF Len(s) < 4 THEN B64Fail
  ELSE IF ~IsDigit(s[1]) \/ ~IsDigit(s[2]) THEN B64Fail
  ELSE IF s[3] = PAD THEN
    IF s[4] = PAD /\ Len(s) = 4
    THEN [ok |-> TRUE, bytes |-> << s[1] * 4 + (s[2] \div 16) >>]
    ELSE B64Fail
  ELSE IF ~IsDigit(s[3]) THEN B64Fail
  ELSE IF s[4] = PAD THEN
    IF Len(s) = 4
    THEN [ok |-> TRUE,
          bytes |-> << s[1] * 4 + (s[2] \div 16), (s[2] % 16) * 16 + (s[3] \div 4) >>]
    ELSE B64Fail
  ELSE IF ~IsDigit(s[4]) THEN B64Fail
  ELSE
    LET rest == B64Quanta(SubSeq(s, 5, Len(s)))
    IN IF rest.ok
       THEN [ok |-> TRUE,
             bytes |-> << s[1] * 4 + (s[2] \div 16),
                          (s[2] % 16) * 16 + (s[3] \div 4),
                          (s[3] % 4) * 64 + s[4] >> \o rest.bytes]
       ELSE B64Fail

B64Decode(s) == B64Quanta(DropNL(s))

RECURSIVE Repeat(_, _)
Repeat(c, n) == IF n <= 0 THEN << >> ELSE << c >> \o Repeat(c, n - 1)

\* b64Value += strings.Repeat("=", 4-m) when m = len % 4 is not 0
AddPadding(s) ==
  IF Len(s) % 4 # 0 THEN s \o Repeat(PAD, 4 - (Len(s) % 4)) ELSE s

\* a field decoder that takes the field as it stands
padB64StringAsIs(b64Value) == B64Decode(b64Value)

padB64String(b64Value) == B64Decode(AddPadding(b64Value))

RECURSIVE TrimLeft(_)
TrimLeft(s) ==
  IF Len(s) > 0 /\ s[1] = PAD THEN TrimLeft(Tail(s)) ELSE s

RECURSIVE TrimRight(_)
TrimRight(s) ==
  IF Len(s) > 0 /\ s[Len(s)] = PAD THEN TrimRight(SubSeq(s, 1, Len(s) - 1)) ELSE s

\* strings.Trim(s, "=")
TrimPad(s) == TrimRight(TrimLeft(s))

(***************************************************************************)
(* encoding/json on the header and on the claims, as a byte grammar:       *)
(*   value  ::= ws* ( JNULL | LBRACE member* RBRACE ) anything*            *)
(* A member is one byte standing for a "key":value pair.  As with          *)
(* json.Decoder.Decode, only the first value of the stream is read, what   *)
(* follows it is not looked at, members unknown to the target are skipped  *)
(* and members absent from the document leave the target's field alone.    *)
(***************************************************************************)
LBRACE == 123
RBRACE == 125
JSPACE == 10
JNULL == 110
\* a byte that starts no JSON value
JJUNK == 97

HS256 == "HS256"
HS384 == "HS384"
HS512 == "HS512"
RS256 == "RS256"
RS384 == "RS384"
RS512 == "RS512"
ES256 == "ES256"
ES384 == "ES384"
ES512 == "ES512"
None == "none"
\* an identifier no validator implements
Unknown == "unknown"

Algorithms ==
  << "", None, HS256, HS384, HS512, RS256, RS384, RS512, ES256, ES384, ES512, Unknown >>
ContentTypes == << "", "JWT" >>
Subjects == << "a", "b" >>
Names == << "", "x", "y" >>

IndexOf(seq, x) == CHOOSE i \in 1..Len(seq) : seq[i] = x

\* the member bytes: "alg":..., "typ":..., "sub":..., "name":...
AlgMember(a) == 128 + IndexOf(Algorithms, a)
TypMember(t) == 200 + IndexOf(ContentTypes, t)
SubMember(x) == 16 + IndexOf(Subjects, x)
NameMember(x) == 32 + IndexOf(Names, x)

IsAlgMember(b) == b > 128 /\ b <= 128 + Len(Algorithms)
IsTypMember(b) == b > 200 /\ b <= 200 + Len(ContentTypes)
IsSubMember(b) == b > 16 /\ b <= 16 + Len(Subjects)
IsNameMember(b) == b > 32 /\ b <= 32 + Len(Names)
IsMember(b) == IsAlgMember(b) \/ IsTypMember(b) \/ IsSubMember(b) \/ IsNameMember(b)

JSONFail == [ok |-> FALSE, null |-> FALSE, members |-> << >>]

RECURSIVE JSONMembers(_)
JSONMembers(s) ==
  IF Len(s) = 0 THEN JSONFail
  ELSE IF s[1] = RBRACE THEN [ok |-> TRUE, null |-> FALSE, members |-> << >>]
  ELSE IF ~IsMember(s[1]) THEN JSONFail
  ELSE LET rest == JSONMembers(Tail(s))
       IN IF rest.ok
          THEN [ok |-> TRUE, null |-> FALSE, members |-> << s[1] >> \o rest.members]
          ELSE JSONFail

RECURSIVE JSONValue(_)
JSONValue(s) ==
  IF Len(s) = 0 THEN JSONFail
  ELSE IF s[1] = JSPACE THEN JSONValue(Tail(s))
  ELSE IF s[1] = JNULL THEN [ok |-> TRUE, null |-> TRUE, members |-> << >>]
  ELSE IF s[1] = LBRACE THEN JSONMembers(Tail(s))
  ELSE JSONFail

\* the header struct {Algorithm `json:"alg"`, ContentType `json:"typ"`}
RECURSIVE ApplyHeader(_, _)
ApplyHeader(h, ms) ==
  IF Len(ms) = 0 THEN h
  ELSE ApplyHeader(
         IF IsAlgMember(ms[1]) THEN [h EXCEPT !.Algorithm = Algorithms[ms[1] - 128]]
         ELSE IF IsTypMember(ms[1]) THEN [h EXCEPT !.ContentType = ContentTypes[ms[1] - 200]]
         ELSE h,
         Tail(ms))

\* the claims of the caller: {sub `json:"sub,omitempty"`, name `json:"name"`}
RECURSIVE ApplyClaims(_, _)
ApplyClaims(v, ms) ==
  IF Len(ms) = 0 THEN v
  ELSE ApplyClaims(
         IF IsSubMember(ms[1]) THEN [v EXCEPT !.sub = Subjects[ms[1] - 16]]
         ELSE IF IsNameMember(ms[1]) THEN [v EXCEPT !.name = Names[ms[1] - 32]]
         ELSE v,
         Tail(ms))

\* json.NewDecoder(bytes.NewReader(value)).Decode(jwt.Header)
DecodeHeaderJSON(value, h) ==
  LET r == JSONValue(value)
  IN [ok |-> r.ok, header |-> IF r.ok THEN ApplyHeader(h, r.members) ELSE h]

\* json.NewDecoder(bytes.NewReader(value)).Decode(v)
DecodeClaimsJSON(value, v) ==
  LET r == JSONValue(value)
  IN [ok |-> r.ok, v |-> IF r.ok THEN ApplyClaims(v, r.members) ELSE v]

ZeroHeader == [Algorithm |-> "", ContentType |-> ""]
ZeroClaims == [sub |-> "", name |-> ""]
\* a nil Payload interface value
NilClaims == [sub |-> "nil", name |-> "nil"]

Claims == [sub : {""} \cup {Subjects[i] : i \in 1..Len(Subjects)},
           name : {Names[i] : i \in 1..Len(Names)}]

\* the compact JSON of a header and of the claims
MarshalHeader(h) ==
  << LBRACE, AlgMember(h.Algorithm), TypMember(h.ContentType), RBRACE >>

MarshalClaims(v) ==
  IF v = NilClaims THEN << JNULL >>
  ELSE << LBRACE >>
       \o (IF v.sub = "" THEN << >> ELSE << SubMember(v.sub) >>)
       \o << NameMember(v.name), RBRACE >>

\* the token under construction or parsed
ZeroJWT ==
  [Header |-> ZeroHeader, headerRaw |-> Nil, Payload |-> NilClaims,
   payloadRaw |-> Nil, Signature |-> Nil]

\* rawEncode: the base64url of the compact JSON of Header and Payload, without
\* padding, stored on the token and returned
rawEncode(jwt) ==
  LET header == TrimPad(B64Encode(MarshalHeader(jwt.Header)))
      payload == TrimPad(B64Encode(MarshalClaims(jwt.Payload)))
  IN [header |-> header, payload |-> payload,
      jwt |-> [jwt EXCEPT !.headerRaw = header, !.payloadRaw = payload]]

(***************************************************************************)
(* The cryptographic primitives.  A digest is HashSize bytes, each byte a  *)
(* running sum over the data; one changed element of the data changes      *)
(* every byte of the digest.                                               *)
(***************************************************************************)
SHA256 == "SHA256"
SHA384 == "SHA384"
SHA512 == "SHA512"
\* a nil hash function, and the zero crypto.Hash
NoHash == "nohash"

\* 32, 48 and 64 bytes shortened to 2, 3 and 4: the same lengths modulo 3
HashSize(h) == CASE h = SHA256 -> 2 [] h = SHA384 -> 3 [] h = SHA512 -> 4 [] OTHER -> 0

RECURSIVE Mix(_, _)
Mix(data, acc) ==
  IF Len(data) = 0 THEN acc
  ELSE Mix(Tail(data), (acc * 5 + data[1] + 1) % 256)

Stretch(data, n, seed) == [i \in 1..n |-> Mix(data, (seed + 37 * i) % 256)]

\* hash.Hash: h.Write(data); h.Sum(nil)
Sum(h, data) == Stretch(data, HashSize(h), HashSize(h))

\* hmac.New(hashFunc, key); mac.Write(data); mac.Sum(nil).  A nil key is the
\* empty key.
HMAC(h, key, data) == Sum(h, Str(key) \o << 255 >> \o data)

\* RSA keys are named 1..2, 0 is a nil key pointer; the public key k verifies
\* what the private key k signed.  A signature is as long as the modulus:
\* key 1 stands for a 2048 bit key (256 bytes, 1 modulo 3), key 2 for a
\* 3072 bit key (384 bytes, 0 modulo 3).
RSKeys == {1, 2}
RSSize(k) == IF k = 1 THEN 4 ELSE 3

\* rsa.SignPKCS1v15 (deterministic)
SignPKCS1v15(priv, hashType, hashed) ==
  Stretch(<< priv, HashSize(hashType) >> \o hashed, RSSize(priv), 11)

\* rsa.VerifyPKCS1v15: TRUE when there is no error
VerifyPKCS1v15(pub, hashType, hashed, sig) ==
  sig = SignPKCS1v15(pub, hashType, hashed)

\* math/big: an integer is its big-endian bytes without leading zeros
RECURSIVE SetBytes(_)
SetBytes(bs) ==
  IF Len(bs) > 0 /\ bs[1] = 0 THEN SetBytes(Tail(bs)) ELSE bs

\* ECDSA keys are named 1..2, 0 is a nil key pointer.  The coordinates of the
\* curve are ESWidth bytes wide (32 for P-256, shortened).
ESKeys == {1, 2}
ESWidth == 2

\* ecdsa.Sign with the nonce drawn from the random source: r depends on the
\* nonce alone, s on the nonce, the key and the hash.  Nonce 1 gives an r, and
\* nonce 2 an s, with a leading zero byte.
ESNonces == {1, 2, 3}
ESr(nonce) ==
  CASE nonce = 1 -> << 9 >> [] nonce = 2 -> << 1, 44 >> [] OTHER -> << 18, 52 >>
ESs(nonce, priv, hashed) ==
  LET d == Stretch(<< nonce, priv >> \o hashed, ESWidth, 23)
  IN IF nonce = 2 THEN << 1 + (d[2] % 255) >> ELSE << 1 + (d[1] % 255), d[2] >>

\* ecdsa.Verify
ESVerify(pub, hashed, r, s) ==
  \E nonce \in ESNonces : r = ESr(nonce) /\ s = ESs(nonce, pub, hashed)

(***************************************************************************)
(* The validators.  A Validator value is a record: its family, the         *)
(* algorithm and hash it was built for, and its keys.  retValid and retErr *)
(* are the fixed answers of a test double (any other implementation of the *)
(* Validator interface).                                                   *)
(***************************************************************************)
NoValidator ==
  [family |-> "none", algorithm |-> "", hash |-> NoHash, Key |-> Nil,
   PublicKey |-> 0, PrivateKey |-> 0, retValid |-> FALSE, retErr |-> ErrNil]

nonevalidator == NoValidator

\* TestValidator of jwt_test.go, and any Validator with fixed answers
StubValidator(valid, err) ==
  [NoValidator EXCEPT !.family = "stub", !.retValid = valid, !.retErr = err]

\* NewHSValidator returns no error; an algorithm outside its switch leaves
\* hashFunc nil
NewHSValidator(algorithm) ==
  [v |-> [NoValidator EXCEPT
            !.family = "hs",
            !.algorithm = algorithm,
            !.hash = CASE algorithm = HS256 -> SHA256
                       [] algorithm = HS384 -> SHA384
                       [] algorithm = HS512 -> SHA512
                       [] OTHER -> NoHash,
            !.Key = Nil],
   err |-> ErrNil]

NewRSValidator(algorithm) ==
  [v |-> [NoValidator EXCEPT
            !.family = "rs",
            !.algorithm = algorithm,
            !.hash = CASE algorithm = RS256 -> SHA256
                       [] algorithm = RS384 -> SHA384
                       [] algorithm = RS512 -> SHA512
                       [] OTHER -> NoHash],
   err |-> IF algorithm \in {RS256, RS384, RS512} THEN ErrNil
           ELSE ErrAlgorithmNotImplemented]

NewESValidator(algorithm) ==
  [v |-> [NoValidator EXCEPT
            !.family = "es",
            !.algorithm = algorithm,
            !.hash = CASE algorithm = ES256 -> SHA256
                       [] algorithm = ES384 -> SHA384
                       [] algorithm = ES512 -> SHA512
                       [] OTHER -> NoHash],
   err |-> IF algorithm \in {ES256, ES384, ES512} THEN ErrNil
           ELSE ErrAlgorithmNotImplemented]

\* a signing input rebuilt from the fields with their padding removed
MagicStringTrimmed(jwt) ==
  TrimPad(Str(jwt.headerRaw)) \o << DOT >> \o TrimPad(Str(jwt.payloadRaw))

\* the string every primitive signs and verifies
MagicString(jwt) == Str(jwt.headerRaw) \o << DOT >> \o Str(jwt.payloadRaw)

Verdict(valid, err, jwt) == [valid |-> valid, err |-> err, jwt |-> jwt]

\* a none validate that accepts the empty signature alone
NoneValidateEmpty(v, jwt) == Verdict(Str(jwt.Signature) = << >>, ErrNil, jwt)

NoneValidate(v, jwt) == Verdict(TRUE, ErrNil, jwt)

NoneSign(v, jwt) ==
  [err |-> ErrNil,
   jwt |-> [jwt EXCEPT !.Header.Algorithm = None, !.Signature = << >>]]

\* a validate that reports a signature that is not base64 as a bad signature
HSValidateUndecoded(v, jwt) ==
  LET signature == B64Decode(AddPadding(Str(jwt.Signature)))
  IN IF jwt.Header.Algorithm # v.algorithm
     THEN Verdict(FALSE, ErrAlgorithmNotImplemented, jwt)
     ELSE IF v.hash = NoHash THEN Verdict(FALSE, Panic, jwt)
     ELSE Verdict(signature.ok /\ signature.bytes = HMAC(v.hash, v.Key, MagicString(jwt)),
                  ErrNil, jwt)

\* a validate that decodes the signature before it looks at the algorithm
HSValidateDecodeFirst(v, jwt) ==
  LET b64Signature == AddPadding(Str(jwt.Signature))
      signature == B64Decode(b64Signature)
  IN IF ~signature.ok THEN Verdict(FALSE, ErrMalformedToken, jwt)
     ELSE IF jwt.Header.Algorithm # v.algorithm
     THEN Verdict(FALSE, ErrAlgorithmNotImplemented, jwt)
     ELSE IF v.hash = NoHash THEN Verdict(FALSE, Panic, jwt)
     ELSE Verdict(signature.bytes = HMAC(v.hash, v.Key, MagicString(jwt)), ErrNil, jwt)

HSValidate(v, jwt) ==
  LET b64Signature == AddPadding(Str(jwt.Signature))
      signature == B64Decode(b64Signature)
  IN IF jwt.Header.Algorithm # v.algorithm
     THEN Verdict(FALSE, ErrAlgorithmNotImplemented, jwt)
     ELSE IF ~signature.ok THEN Verdict(FALSE, ErrMalformedToken, jwt)
     ELSE IF v.hash = NoHash THEN Verdict(FALSE, Panic, jwt)
     ELSE Verdict(signature.bytes = HMAC(v.hash, v.Key, MagicString(jwt)), ErrNil, jwt)

\* a sign that keeps the algorithm the token already names
HSSignKeep(v, jwt) ==
  LET named == IF jwt.Header.Algorithm = "" THEN v.algorithm ELSE jwt.Header.Algorithm
      raw == rawEncode([jwt EXCEPT !.Header.Algorithm = named])
      mac == HMAC(v.hash, v.Key, raw.header \o << DOT >> \o raw.payload)
  IN IF v.hash = NoHash THEN [err |-> Panic, jwt |-> raw.jwt]
     ELSE [err |-> ErrNil, jwt |-> [raw.jwt EXCEPT !.Signature = B64Encode(mac)]]

HSSign(v, jwt) ==
  LET raw == rawEncode([jwt EXCEPT !.Header.Algorithm = v.algorithm])
      mac == HMAC(v.hash, v.Key, raw.header \o << DOT >> \o raw.payload)
  IN IF v.hash = NoHash THEN [err |-> Panic, jwt |-> raw.jwt]
     ELSE [err |-> ErrNil, jwt |-> [raw.jwt EXCEPT !.Signature = B64Encode(mac)]]

\* a validate that reports a signature that does not decode as a bad signature
RSValidateBadSignature(v, jwt) ==
  LET enc == rawEncode([jwt EXCEPT !.Header.Algorithm = v.algorithm]).jwt
      signature == B64Decode(Str(enc.Signature))
      hash == Sum(v.hash, MagicString(enc))
  IN IF v.PublicKey = 0 THEN Verdict(FALSE, ErrBadSignature, jwt)
     ELSE IF ~signature.ok THEN Verdict(FALSE, ErrBadSignature, enc)
     ELSE IF v.hash = NoHash THEN Verdict(FALSE, Panic, enc)
     ELSE IF VerifyPKCS1v15(v.PublicKey, v.hash, hash, signature.bytes)
     THEN Verdict(TRUE, ErrNil, enc)
     ELSE Verdict(FALSE, ErrBadSignature, enc)

RSValidate(v, jwt) ==
  LET enc == rawEncode([jwt EXCEPT !.Header.Algorithm = v.algorithm]).jwt
      signature == B64Decode(Str(enc.Signature))
      hash == Sum(v.hash, MagicString(enc))
  IN IF v.PublicKey = 0 THEN Verdict(FALSE, ErrBadSignature, jwt)
     ELSE IF ~signature.ok THEN Verdict(FALSE, CorruptInputError, enc)
     ELSE IF v.hash = NoHash THEN Verdict(FALSE, Panic, enc)
     ELSE IF VerifyPKCS1v15(v.PublicKey, v.hash, hash, signature.bytes)
     THEN Verdict(TRUE, ErrNil, enc)
     ELSE Verdict(FALSE, ErrBadSignature, enc)

RSSign(v, jwt) ==
  LET enc == rawEncode([jwt EXCEPT !.Header.Algorithm = v.algorithm]).jwt
      hash == Sum(v.hash, MagicString(enc))
      signature == SignPKCS1v15(v.PrivateKey, v.hash, hash)
  IN IF v.hash = NoHash \/ v.PrivateKey = 0 THEN [err |-> Panic, jwt |-> enc]
     ELSE [err |-> ErrNil,
           jwt |-> [enc EXCEPT !.Signature = TrimPad(B64Encode(signature))]]

\* a validate that turns away a signature that is not two coordinates long
ESValidateChecked(v, jwt) ==
  LET signature == B64Decode(jwt.Signature)
      count == Len(signature.bytes)
      r == SetBytes(SubSeq(signature.bytes, 1, count \div 2))
      s == SetBytes(SubSeq(signature.bytes, (count \div 2) + 1, count))
      hash == Sum(v.hash, MagicString(jwt))
  IN IF jwt.Signature = Nil THEN Verdict(FALSE, ErrMalformedToken, jwt)
     ELSE IF ~signature.ok THEN Verdict(FALSE, ErrMalformedToken, jwt)
     ELSE IF count # 2 * ESWidth THEN Verdict(FALSE, ErrMalformedToken, jwt)
     ELSE IF v.hash = NoHash \/ v.PublicKey = 0 THEN Verdict(FALSE, Panic, jwt)
     ELSE Verdict(ESVerify(v.PublicKey, hash, r, s), ErrNil, jwt)

ESValidate(v, jwt) ==
  LET signature == B64Decode(jwt.Signature)
      count == Len(signature.bytes)
      r == SetBytes(SubSeq(signature.bytes, 1, count \div 2))
      s == SetBytes(SubSeq(signature.bytes, (count \div 2) + 1, count))
      hash == Sum(v.hash, MagicString(jwt))
  IN IF jwt.Signature = Nil THEN Verdict(FALSE, ErrMalformedToken, jwt)
     ELSE IF ~signature.ok THEN Verdict(FALSE, ErrMalformedToken, jwt)
     ELSE IF v.hash = NoHash \/ v.PublicKey = 0 THEN Verdict(FALSE, Panic, jwt)
     ELSE Verdict(ESVerify(v.PublicKey, hash, r, s), ErrNil, jwt)

ESSign(v, jwt, nonce) ==
  LET enc == rawEncode([jwt EXCEPT !.Header.Algorithm = v.algorithm]).jwt
      hash == Sum(v.hash, MagicString(enc))
      signature == ESr(nonce) \o ESs(nonce, v.PrivateKey, hash)
  IN IF v.PrivateKey = 0 THEN [err |-> ErrNilPrivateKey, jwt |-> jwt]
     ELSE IF v.hash = NoHash THEN [err |-> Panic, jwt |-> enc]
     ELSE [err |-> ErrNil, jwt |-> [enc EXCEPT !.Signature = B64Encode(signature)]]

StubValidate(v, jwt) == Verdict(v.retValid, v.retErr, jwt)

StubSign(v, jwt) == [err |-> v.retErr, jwt |-> jwt]

\* the Validator interface: validate(jwt) (bool, error) and sign(jwt) error
validate(v, jwt) ==
  CASE v.family = "none" -> NoneValidate(v, jwt)
    [] v.family = "hs" -> HSValidate(v, jwt)
    [] v.family = "rs" -> RSValidate(v, jwt)
    [] v.family = "es" -> ESValidate(v, jwt)
    [] OTHER -> StubValidate(v, jwt)

sign(v, jwt, nonce) ==
  CASE v.family = "none" -> NoneSign(v, jwt)
    [] v.family = "hs" -> HSSign(v, jwt)
    [] v.family = "rs" -> RSSign(v, jwt)
    [] v.family = "es" -> ESSign(v, jwt, nonce)
    [] OTHER -> StubSign(v, jwt)

(***************************************************************************)
(* The parser and the facade (jwt.go)                                      *)
(***************************************************************************)
\* strings.Split(input, "."): always at least one field
RECURSIVE Split(_)
Split(input) ==
  IF \A i \in 1..Len(input) : input[i] # DOT THEN << input >>
  ELSE LET i == CHOOSE k \in 1..Len(input) :
                  input[k] = DOT /\ \A j \in 1..(k - 1) : input[j] # DOT
       IN << SubSeq(input, 1, i - 1) >> \o Split(SubSeq(input, i + 1, Len(input)))

parseHeader(jwt, raw) ==
  LET value == padB64String(raw)
      json == DecodeHeaderJSON(value.bytes, jwt.Header)
  IN IF ~value.ok THEN [err |-> CorruptInputError, jwt |-> jwt]
     ELSE IF ~json.ok
     THEN [err |-> ErrMalformedToken, jwt |-> [jwt EXCEPT !.headerRaw = raw]]
     ELSE [err |-> ErrNil,
           jwt |-> [jwt EXCEPT !.headerRaw = raw, !.Header = json.header]]

\* the error of encoding/json
JSONError == "json.SyntaxError"

parsePayload(jwt, raw, v) ==
  LET value == padB64String(raw)
      json == DecodeClaimsJSON(value.bytes, v)
      set == [jwt EXCEPT !.payloadRaw = raw]
  IN IF ~value.ok THEN [err |-> CorruptInputError, jwt |-> set, v |-> v]
     ELSE IF ~json.ok THEN [err |-> JSONError, jwt |-> set, v |-> v]
     ELSE [err |-> ErrNil, jwt |-> set, v |-> json.v]

\* a parser that decodes the payload field before the header field
parseJWTPayloadFirst(input, payload) ==
  LET jwt0 == [ZeroJWT EXCEPT !.Header = ZeroHeader]
      fields == Split(input)
      p == parsePayload(jwt0, fields[2], payload)
      h == parseHeader(p.jwt, fields[1])
  IN IF Len(fields) # 3 THEN [jwt |-> jwt0, err |-> ErrMalformedToken, v |-> payload]
     ELSE IF p.err # ErrNil THEN [jwt |-> p.jwt, err |-> ErrMalformedToken, v |-> p.v]
     ELSE IF h.err # ErrNil THEN [jwt |-> h.jwt, err |-> ErrMalformedToken, v |-> p.v]
     ELSE [jwt |-> [h.jwt EXCEPT !.Signature = fields[3]], err |-> ErrNil, v |-> p.v]

\* a parser that keeps the fields with their padding removed
parseJWTTrimmed(input, payload) ==
  LET jwt0 == [ZeroJWT EXCEPT !.Header = ZeroHeader]
      fields == Split(input)
      h == parseHeader(jwt0, fields[1])
      p == parsePayload(h.jwt, fields[2], payload)
  IN IF Len(fields) # 3 THEN [jwt |-> jwt0, err |-> ErrMalformedToken, v |-> payload]
     ELSE IF h.err # ErrNil THEN [jwt |-> h.jwt, err |-> ErrMalformedToken, v |-> payload]
     ELSE IF p.err # ErrNil THEN [jwt |-> p.jwt, err |-> ErrMalformedToken, v |-> p.v]
     ELSE [jwt |-> [p.jwt EXCEPT !.headerRaw = TrimPad(fields[1]),
                                 !.payloadRaw = TrimPad(fields[2]),
                                 !.Signature = TrimPad(fields[3])],
           err |-> ErrNil, v |-> p.v]

\* a parser that asks for three fields or more
parseJWTAtLeastThree(input, payload) ==
  LET jwt0 == [ZeroJWT EXCEPT !.Header = ZeroHeader]
      fields == Split(input)
      h == parseHeader(jwt0, fields[1])
      p == parsePayload(h.jwt, fields[2], payload)
  IN IF Len(fields) < 3 THEN [jwt |-> jwt0, err |-> ErrMalformedToken, v |-> payload]
     ELSE IF h.err # ErrNil THEN [jwt |-> h.jwt, err |-> ErrMalformedToken, v |-> payload]
     ELSE IF p.err # ErrNil THEN [jwt |-> p.jwt, err |-> ErrMalformedToken, v |-> p.v]
     ELSE [jwt |-> [p.jwt EXCEPT !.Signature = fields[3]], err |-> ErrNil, v |-> p.v]

\* a parser that hands on the error of the step that failed
parseJWTUnderlying(input, payload) ==
  LET jwt0 == [ZeroJWT EXCEPT !.Header = ZeroHeader]
      fields == Split(input)
      h == parseHeader(jwt0, fields[1])
      p == parsePayload(h.jwt, fields[2], payload)
  IN IF Len(fields) # 3 THEN [jwt |-> jwt0, err |-> ErrMalformedToken, v |-> payload]
     ELSE IF h.err # ErrNil THEN [jwt |-> h.jwt, err |-> h.err, v |-> payload]
     ELSE IF p.err # ErrNil THEN [jwt |-> p.jwt, err |-> p.err, v |-> p.v]
     ELSE [jwt |-> [p.jwt EXCEPT !.Signature = fields[3]], err |-> ErrNil, v |-> p.v]

parseJWT(input, payload) ==
  LET jwt0 == [ZeroJWT EXCEPT !.Header = ZeroHeader]
      fields == Split(input)
      h == parseHeader(jwt0, fields[1])
      p == parsePayload(h.jwt, fields[2], payload)
  IN IF Len(fields) # 3 THEN [jwt |-> jwt0, err |-> ErrMalformedToken, v |-> payload]
     ELSE IF h.err # ErrNil THEN [jwt |-> h.jwt, err |-> ErrMalformedToken, v |-> payload]
     ELSE IF p.err # ErrNil THEN [jwt |-> p.jwt, err |-> ErrMalformedToken, v |-> p.v]
     ELSE [jwt |-> [p.jwt EXCEPT !.Signature = fields[3]], err |-> ErrNil, v |-> p.v]

\* the size of the buffer of bufio.NewReader
defaultBufSize == 4096

\* buf.ReadString(' ') on a fresh bufio.Reader over r: the bytes up to and
\* with the first ' ' (all of r when there is none); the reader is drained in
\* chunks of the buffer's size and what was buffered past the delimiter is
\* dropped with the buffer
ReadString(r) ==
  LET hit == {i \in 1..Len(r) : r[i] = SP}
      first == IF hit = {} THEN Len(r)
               ELSE CHOOSE i \in hit : \A j \in hit : i <= j
      chunks == (first + defaultBufSize - 1) \div defaultBufSize
      taken == IF chunks * defaultBufSize < Len(r) THEN chunks * defaultBufSize ELSE Len(r)
  IN [input |-> SubSeq(r, 1, first), rest |-> SubSeq(r, taken + 1, Len(r))]

\* a Decode that looks at the validator's error only when the answer is false
DecodeValidOnly(dec, v) ==
  LET rd == ReadString(dec.reader)
      parsed == parseJWT(rd.input, v)
      verdict == validate(dec.validator, parsed.jwt)
      unread == [dec EXCEPT !.reader = rd.rest]
  IN IF parsed.err # ErrNil
     THEN [err |-> parsed.err, v |-> parsed.v, dec |-> unread, jwt |-> parsed.jwt,
           input |-> rd.input, called |-> FALSE, valid |-> FALSE, verr |-> ErrNil]
     ELSE [err |-> IF ~verdict.valid
                   THEN (IF verdict.err # ErrNil THEN verdict.err ELSE ErrBadSignature)
                   ELSE ErrNil,
           v |-> parsed.v, dec |-> unread, jwt |-> verdict.jwt,
           input |-> rd.input, called |-> TRUE,
           valid |-> verdict.valid, verr |-> verdict.err]

\* a Decode that resolves the validator from the algorithm of the parsed
\* header and takes the keys alone from the validator it was given
DecodeDispatching(dec, v) ==
  LET rd == ReadString(dec.reader)
      parsed == parseJWT(rd.input, v)
      alg == parsed.jwt.Header.Algorithm
      known == alg \in {None, HS256, HS384, HS512, RS256, RS384, RS512,
                        ES256, ES384, ES512}
      built == IF alg = None THEN nonevalidator
               ELSE IF alg \in {HS256, HS384, HS512} THEN NewHSValidator(alg).v
               ELSE IF alg \in {RS256, RS384, RS512} THEN NewRSValidator(alg).v
               ELSE NewESValidator(alg).v
      resolved == [built EXCEPT !.Key = dec.validator.Key,
                                !.PublicKey = dec.validator.PublicKey,
                                !.PrivateKey = dec.validator.PrivateKey]
      verdict == IF known THEN validate(resolved, parsed.jwt)
                 ELSE Verdict(FALSE, ErrAlgorithmNotImplemented, parsed.jwt)
      unread == [dec EXCEPT !.reader = rd.rest]
  IN IF parsed.err # ErrNil
     THEN [err |-> parsed.err, v |-> parsed.v, dec |-> unread, jwt |-> parsed.jwt,
           input |-> rd.input, called |-> FALSE, valid |-> FALSE, verr |-> ErrNil]
     ELSE [err |-> IF ~verdict.valid \/ verdict.err # ErrNil
                   THEN (IF verdict.err # ErrNil THEN verdict.err ELSE ErrBadSignature)
                   ELSE verdict.err,
           v |-> parsed.v, dec |-> unread, jwt |-> verdict.jwt,
           input |-> rd.input, called |-> TRUE,
           valid |-> verdict.valid, verr |-> verdict.err]

\* a Decode that fills the destination only once the validator has accepted
DecodeVerifyFirst(dec, v) ==
  LET rd == ReadString(dec.reader)
      parsed == parseJWT(rd.input, v)
      verdict == validate(dec.validator, parsed.jwt)
      unread == [dec EXCEPT !.reader = rd.rest]
      accepted == verdict.valid /\ verdict.err = ErrNil
  IN IF parsed.err # ErrNil
     THEN [err |-> parsed.err, v |-> parsed.v, dec |-> unread, jwt |-> parsed.jwt,
           input |-> rd.input, called |-> FALSE, valid |-> FALSE, verr |-> ErrNil]
     ELSE [err |-> IF accepted THEN ErrNil
                   ELSE IF verdict.err # ErrNil THEN verdict.err ELSE ErrBadSignature,
           v |-> IF accepted THEN parsed.v ELSE v,
           dec |-> unread, jwt |-> verdict.jwt,
           input |-> rd.input, called |-> TRUE,
           valid |-> verdict.valid, verr |-> verdict.err]

\* Decoder.Decode(v): called tells whether the validator was invoked, and
\* verdict what it answered
Decode(dec, v) ==
  LET rd == ReadString(dec.reader)
      parsed == parseJWT(rd.input, v)
      verdict == validate(dec.validator, parsed.jwt)
      unread == [dec EXCEPT !.reader = rd.rest]
  IN IF parsed.err # ErrNil
     THEN [err |-> parsed.err, v |-> parsed.v, dec |-> unread, jwt |-> parsed.jwt,
           input |-> rd.input, called |-> FALSE, valid |-> FALSE, verr |-> ErrNil]
     ELSE [err |-> IF ~verdict.valid \/ verdict.err # ErrNil
                   THEN (IF verdict.err # ErrNil THEN verdict.err ELSE ErrBadSignature)
                   ELSE verdict.err,
           v |-> parsed.v, dec |-> unread, jwt |-> verdict.jwt,
           input |-> rd.input, called |-> TRUE,
           valid |-> verdict.valid, verr |-> verdict.err]

\* an Encode that writes the token before it looks at the error of sign
EncodeWriteFirst(enc, v, nonce) ==
  LET jwt0 == [ZeroJWT EXCEPT !.Header.ContentType = "JWT", !.Payload = v]
      signed == sign(enc.validator, jwt0, nonce)
      raw == rawEncode(signed.jwt)
  IN [err |-> signed.err,
      enc |-> [enc EXCEPT !.writer =
                 @ \o raw.header \o << DOT >> \o raw.payload \o << DOT >>
                   \o Str(raw.jwt.Signature)],
      jwt |-> raw.jwt]

\* an Encode whose validator gives its key away with the signature
EncodeSpending(enc, v, nonce) ==
  LET jwt0 == [ZeroJWT EXCEPT !.Header.ContentType = "JWT", !.Payload = v]
      signed == sign(enc.validator, jwt0, nonce)
      raw == rawEncode(signed.jwt)
  IN IF signed.err # ErrNil
     THEN [err |-> signed.err, enc |-> enc, jwt |-> signed.jwt]
     ELSE [err |-> ErrNil,
           enc |-> [enc EXCEPT !.writer =
                      @ \o raw.header \o << DOT >> \o raw.payload \o << DOT >>
                        \o Str(raw.jwt.Signature),
                               !.validator.Key = Nil,
                               !.validator.PrivateKey = 0],
           jwt |-> raw.jwt]

\* Encoder.Encode(v): nonce is what an ECDSA signer draws from its random source
Encode(enc, v, nonce) ==
  LET jwt0 == [ZeroJWT EXCEPT !.Header.ContentType = "JWT", !.Payload = v]
      signed == sign(enc.validator, jwt0, nonce)
      raw == rawEncode(signed.jwt)
  IN IF signed.err # ErrNil
     THEN [err |-> signed.err, enc |-> enc, jwt |-> signed.jwt]
     ELSE [err |-> ErrNil,
           enc |-> [enc EXCEPT !.writer =
                      @ \o raw.header \o << DOT >> \o raw.payload \o << DOT >>
                        \o Str(raw.jwt.Signature)],
           jwt |-> raw.jwt]

(***************************************************************************)
(* The inputs the operations are driven with                               *)
(***************************************************************************)
\* the identifiers a constructor is called with: its own family's, another
\* family's and an unknown one
CtorAlgorithms(family) ==
  CASE family = "hs" -> {HS256, HS384, HS512, RS256, Unknown}
    [] family = "rs" -> {RS256, RS384, RS512, None, Unknown}
    [] family = "es" -> {ES256, ES384, ES512, None, Unknown}
    [] OTHER -> {""}

HSKeyChoices == {<< 1 >>, << 2, 3 >>}
\* <<PublicKey, PrivateKey>>: matching pairs, a mismatch, one key only
KeyPairChoices == {<< 1, 1 >>, << 2, 2 >>, << 1, 2 >>, << 1, 0 >>, << 0, 1 >>}

StubAnswers ==
  {<< FALSE, ErrTestValidator >>, << TRUE, ErrTestValidator >>,
   << FALSE, ErrNil >>, << TRUE, ErrNil >>}

EncodeClaims ==
  {ZeroClaims, [sub |-> "a", name |-> "x"], [sub |-> "", name |-> "y"]}

Destinations == {ZeroClaims, [sub |-> "b", name |-> "y"]}

Unpadded(bytes) == TrimPad(B64Encode(bytes))

CraftHeaders ==
  {Unpadded(MarshalHeader([Algorithm |-> a, ContentType |-> "JWT"])) :
     a \in {None, HS256, RS256, Unknown}}
  \cup {B64Encode(MarshalHeader([Algorithm |-> HS256, ContentType |-> "JWT"])),
        Unpadded(<< LBRACE, AlgMember(None), RBRACE, JSPACE >>),
        Unpadded(<< JJUNK, JSPACE >>),
        << PAD, PAD, PAD, PAD, PAD, PAD >>,
        << 30 >>}

CraftPayloads ==
  {Unpadded(MarshalClaims([sub |-> "a", name |-> "x"])),
   Unpadded(<< LBRACE, RBRACE, 36 >>),
   B64Encode(<< JJUNK, JSPACE >>),
   << 30, BAD >>}

\* signature fields for a header and payload field: empty, not base64, base64
\* of other bytes, the signatures keys 1 make of h.p, and the one made of the
\* fields spelled without their padding
CraftSignatures(h, p) ==
  LET m == h \o << DOT >> \o p
  IN {<< >>,
      << 27, 26, 29, BAD >>,
      B64Encode(<< JJUNK, JSPACE >>),
      Unpadded(HMAC(SHA256, << 1 >>, m)),
      Unpadded(HMAC(SHA256, << 1 >>, TrimPad(h) \o << DOT >> \o TrimPad(p))),
      B64Encode(SignPKCS1v15(1, SHA256, Sum(SHA256, m)))}

Join3(h, p, sg) == h \o << DOT >> \o p \o << DOT >> \o sg

\* inputs that do not split into three fields
CraftOther ==
  {<< >>, << 26, 27 >>, << 26, 27, DOT, 29, 30 >>,
   << 26, DOT, 27, DOT, 28, DOT, 29 >>, << DOT, DOT, DOT, DOT >>,
   Join3(Unpadded(MarshalHeader([Algorithm |-> None, ContentType |-> "JWT"])),
         Unpadded(MarshalClaims(ZeroClaims)), << DOT >>)}

\* the characters a byte c of a token is replaced with
TamperChars(c) ==
  {(c + 1) % 64, (c + 4) % 64, (c + 32) % 64, PAD, DOT, SP, NL, BAD} \ {c}

\* the positions of the signature segment of a written token
SignaturePositions(token) ==
  {i \in 1..Len(token) :
     Cardinality({j \in 1..(i - 1) : token[j] = DOT}) = 2}

\* tokens handed to validate and sign directly, as the package's tests do
DirectTokens ==
  {[Header |-> [Algorithm |-> a, ContentType |-> "JWT"],
    headerRaw |-> IF raw THEN Unpadded(MarshalHeader([Algorithm |-> a, ContentType |-> "JWT"]))
                  ELSE Nil,
    Payload |-> c,
    payloadRaw |-> IF raw THEN Unpadded(MarshalClaims(c)) ELSE Nil,
    Signature |-> sg] :
     a \in {None, HS256, RS256, ES256, Unknown},
     raw \in BOOLEAN,
     c \in {[sub |-> "a", name |-> "x"], NilClaims},
     sg \in {Nil, << >>, << 27, 26, 29, BAD >>, B64Encode(<< JJUNK, JSPACE >>)}}

(***************************************************************************)
(* The state machine: a validator is built and given keys, then a token    *)
(* is encoded and written, read back (as written or with one character     *)
(* replaced) or supplied by the outside, and decoded.                      *)
(***************************************************************************)
VARIABLES
  pc,         \* where the run stands
  requested,  \* the identifier the validator's constructor was called with
  validator,  \* the Validator given to NewEncoder and NewDecoder
  newErr,     \* the error its constructor returned
  writer,     \* what the Encoder wrote
  reader,     \* what the Decoder's reader holds
  origin,     \* where the reader's content came from
  src,        \* the claims given to Encode
  dst0,       \* the destination before Decode
  dst,        \* the destination after Decode
  input,      \* the string Decode parsed
  jwt0,       \* the token handed to validate or sign
  jwt,        \* the token after the last operation
  err,        \* the error the last operation returned
  called,     \* whether Decode invoked the validator
  valid,      \* the validator's answer
  verr,       \* the validator's error
  signs,      \* how many times the token was handed to sign
  pending,    \* how many tokens of the reader Decode was not yet called for
  codec       \* a byte string on its way through the field codec

vars ==
  << pc, requested, validator, newErr, writer, reader, origin, src, dst0, dst, input,
     jwt0, jwt, err, called, valid, verr, signs, pending, codec >>

\* nothing was built, written or read yet
Idle ==
  /\ pc = "new"
  /\ requested = ""
  /\ validator = NoValidator
  /\ newErr = ErrNil
  /\ writer = << >>
  /\ reader = << >>
  /\ origin = "none"
  /\ src = NilClaims
  /\ dst0 = ZeroClaims
  /\ dst = ZeroClaims
  /\ input = << >>
  /\ jwt0 = ZeroJWT
  /\ jwt = ZeroJWT
  /\ err = ErrNil
  /\ called = FALSE
  /\ valid = FALSE
  /\ verr = ErrNil
  /\ signs = 0
  /\ pending = 0

Init ==
  /\ Idle
  /\ codec = [stage |-> "idle", x |-> << >>, field |-> << >>, ok |-> FALSE, bytes |-> << >>]

Built(a, v, e) ==
  /\ pc' = "built"
  /\ requested' = a
  /\ validator' = v
  /\ newErr' = e
  /\ UNCHANGED << codec, writer, reader, origin, src, dst0, dst, input, jwt0, jwt, err,
                  called, valid, verr, signs, pending >>

\* the package's nonevalidator value
NewNone ==
  /\ pc = "new"
  /\ Built(None, nonevalidator, ErrNil)

\* a caller's own Validator implementation
NewStub ==
  /\ pc = "new"
  /\ \E a \in StubAnswers : Built("", StubValidator(a[1], a[2]), ErrNil)

NewHS ==
  /\ pc = "new"
  /\ \E a \in CtorAlgorithms("hs") :
       \E r \in {NewHSValidator(a)} : Built(a, r.v, r.err)

NewRS ==
  /\ pc = "new"
  /\ \E a \in CtorAlgorithms("rs") :
       \E r \in {NewRSValidator(a)} : Built(a, r.v, r.err)

NewES ==
  /\ pc = "new"
  /\ \E a \in CtorAlgorithms("es") :
       \E r \in {NewESValidator(a)} : Built(a, r.v, r.err)

\* v.Key = ..., v.PublicKey = ..., v.PrivateKey = ...
SetKeys ==
  /\ pc = "built"
  /\ validator.hash # NoHash
  /\ \/ /\ validator.family = "hs"
        /\ \E k \in HSKeyChoices : validator' = [validator EXCEPT !.Key = k]
     \/ /\ validator.family \in {"rs", "es"}
        /\ \E k \in KeyPairChoices :
             validator' = [validator EXCEPT !.PublicKey = k[1], !.PrivateKey = k[2]]
  /\ pc' = "ready"
  /\ UNCHANGED << codec, requested, newErr, writer, reader, origin, src, dst0, dst, input, jwt0, jwt,
                  err, called, valid, verr, signs, pending >>

Usable == pc \in {"built", "ready"}

EncodeStep ==
  /\ Usable
  /\ \E v \in EncodeClaims, nonce \in ESNonces :
       \E r \in {Encode([writer |-> << >>, validator |-> validator], v, nonce)} :
          /\ (validator.family # "es" => nonce = 1)
          /\ writer' = r.enc.writer
          /\ validator' = r.enc.validator
          /\ err' = r.err
          /\ jwt' = r.jwt
          /\ src' = v
  /\ pc' = "encoded"
  /\ UNCHANGED << codec, requested, newErr, reader, origin, dst0, dst, input, jwt0,
                  called, valid, verr, signs, pending >>

Feed(r, o, n) ==
  /\ reader' = r
  /\ origin' = o
  /\ pending' = n
  /\ pc' = "reading"
  /\ UNCHANGED << codec, requested, validator, newErr, writer, src, dst0, dst, input, jwt0, jwt, err,
                  called, valid, verr, signs >>

\* the written token is what the Decoder reads
Pipe ==
  /\ pc = "encoded"
  /\ err = ErrNil
  /\ Feed(writer, "pipe", 1)

\* one character of the signature segment is replaced
Tamper ==
  /\ pc = "encoded"
  /\ err = ErrNil
  /\ \E i \in SignaturePositions(writer) :
       \E c \in TamperChars(writer[i]) : Feed([writer EXCEPT ![i] = c], "tamper", 1)

\* a token from the outside
Craft ==
  /\ Usable
  /\ \/ \E h \in CraftHeaders, p \in CraftPayloads :
          \E sg \in CraftSignatures(h, p) : Feed(Join3(h, p, sg), "craft", 1)
     \/ \E t \in CraftOther : Feed(t, "craft", 1)

\* the most tokens a reader holds
MaxTokens == 2

\* n copies of a token separated by single spaces
RECURSIVE Tokens(_, _)
Tokens(t, n) == IF n <= 1 THEN t ELSE t \o << SP >> \o Tokens(t, n - 1)

\* the written token is sent several times over one reader
Stream ==
  /\ pc = "encoded"
  /\ err = ErrNil
  /\ \E n \in 2..MaxTokens : Feed(Tokens(writer, n), "stream", n)

\* one call of Decode on the Decoder's reader
Decoded ==
  /\ \E d \in Destinations :
       \E r \in {Decode([reader |-> reader, validator |-> validator], d)} :
          /\ dst0' = d
          /\ dst' = r.v
          /\ reader' = r.dec.reader
          /\ validator' = r.dec.validator
          /\ input' = r.input
          /\ jwt' = r.jwt
          /\ err' = r.err
          /\ called' = r.called
          /\ valid' = r.valid
          /\ verr' = r.verr
  /\ pending' = pending - 1
  /\ pc' = "decoded"
  /\ UNCHANGED << codec, requested, newErr, writer, origin, src, jwt0, signs >>

DecodeStep ==
  /\ pc = "reading"
  /\ Decoded

\* Decode is called again for the next token of the reader
DecodeNext ==
  /\ pc = "decoded"
  /\ pending > 0
  /\ Decoded

\* validator.validate(token) called directly
ValidateStep ==
  /\ Usable
  /\ \E t \in DirectTokens :
       \E r \in {validate(validator, t)} :
          /\ jwt0' = t
          /\ jwt' = r.jwt
          /\ valid' = r.valid
          /\ verr' = r.err
          /\ err' = r.err
  /\ called' = TRUE
  /\ pc' = "validated"
  /\ UNCHANGED << codec, requested, validator, newErr, writer, reader, origin, src, dst0, dst,
                  input, signs, pending >>

\* the most sign calls made on one token
MaxSigns == 3

\* the validators a token is signed again with
Signers ==
  {nonevalidator,
   [NewHSValidator(HS256).v EXCEPT !.Key = << 1 >>],
   [NewHSValidator(HS384).v EXCEPT !.Key = << 2, 3 >>],
   [NewRSValidator(RS256).v EXCEPT !.PublicKey = 1, !.PrivateKey = 1],
   [NewESValidator(ES256).v EXCEPT !.PublicKey = 1, !.PrivateKey = 1]}

Signed(v, t, nonce) ==
  /\ (v.family # "es" => nonce = 1)
  /\ \E r \in {sign(v, t, nonce)} :
       /\ jwt0' = t
       /\ jwt' = r.jwt
       /\ err' = r.err
  /\ validator' = v
  /\ signs' = signs + 1
  /\ pc' = "signed"
  /\ UNCHANGED << codec, requested, newErr, writer, reader, origin, src, dst0, dst, input,
                  called, valid, verr, pending >>

\* validator.sign(token) called directly
SignStep ==
  /\ Usable
  /\ \E t \in DirectTokens, nonce \in ESNonces : Signed(validator, t, nonce)

\* the token that was signed is signed again, by the same or another validator
ReSign ==
  /\ pc = "signed"
  /\ err # Panic
  /\ signs < MaxSigns
  /\ \E v \in Signers, nonce \in ESNonces : Signed(v, jwt, nonce)

Next ==
  \/ NewNone
  \/ NewStub
  \/ NewHS
  \/ NewRS
  \/ NewES
  \/ SetKeys
  \/ EncodeStep
  \/ Pipe
  \/ Tamper
  \/ Craft
  \/ Stream
  \/ DecodeStep
  \/ DecodeNext
  \/ ValidateStep
  \/ SignStep
  \/ ReSign

Spec == Init /\ [][Next]_vars

(***************************************************************************)
(* The field codec by itself: a byte string is encoded without padding as  *)
(* rawEncode does and decoded by padB64String, and a field from the wire   *)
(* is decoded by padB64String.                                             *)
(***************************************************************************)
\* the longest byte string, and the longest field from the wire
MaxLen == 3
MaxFieldLen == 5

\* byte strings of every length up to MaxLen, and fields of digits, '=' and
\* new lines of every length up to MaxFieldLen
CodecInputs ==
  {[stage |-> "bytes", x |-> x, field |-> << >>, ok |-> FALSE, bytes |-> << >>] :
     x \in UNION {[1..n -> {0, 1, 77, 255}] : n \in 0..MaxLen}}
  \cup
  {[stage |-> "wire", x |-> << >>, field |-> f, ok |-> FALSE, bytes |-> << >>] :
     f \in UNION {[1..n -> {0, 17, 63, PAD, NL}] : n \in 0..MaxFieldLen}}

CodecInit ==
  /\ Idle
  /\ codec \in CodecInputs

\* the unpadded base64url of the bytes, as a written field
FieldEncode ==
  /\ codec.stage = "bytes"
  /\ codec' = [codec EXCEPT !.stage = "encoded", !.field = Unpadded(codec.x)]
  /\ UNCHANGED << pc, requested, validator, newErr, writer, reader, origin, src, dst0, dst,
                  input, jwt0, jwt, err, called, valid, verr, signs, pending >>

\* padB64String on the field
FieldDecode ==
  /\ codec.stage \in {"encoded", "wire"}
  /\ \E r \in {padB64String(codec.field)} :
       codec' = [codec EXCEPT !.stage = IF codec.stage = "wire" THEN "read" ELSE "decoded",
                              !.ok = r.ok, !.bytes = r.bytes]
  /\ UNCHANGED << pc, requested, validator, newErr, writer, reader, origin, src, dst0, dst,
                  input, jwt0, jwt, err, called, valid, verr, signs, pending >>

CodecNext ==
  \/ FieldEncode
  \/ FieldDecode

CodecSpec == CodecInit /\ [][CodecNext]_vars

(***************************************************************************)
(* What the properties below speak of                                      *)
(***************************************************************************)
\* an algorithm of the package, built by its constructor without an error
Supported(v) ==
  v.family = "none" \/ (v.family \in {"hs", "rs", "es"} /\ v.hash # NoHash)

\* the validator holds the key that verifies what it signs
MatchingKeys(v) ==
  CASE v.family = "hs" -> v.Key # Nil
    [] v.family \in {"rs", "es"} -> v.PublicKey # 0 /\ v.PublicKey = v.PrivateKey
    [] OTHER -> TRUE

\* the fields of a string on the wire
Fields(s) == Split(s)
ThreeFields(s) == Len(Fields(s)) = 3

\* the bytes the signature field of a three-field string stands for
SignatureBytes(s) == padB64String(Fields(s)[3])

\* the signing input as received on the wire
WireInput(s) == Fields(s)[1] \o << DOT >> \o Fields(s)[2]

\* the algorithm the header field of a three-field string declares
DeclaredAlgorithm(s) ==
  DecodeHeaderJSON(padB64String(Fields(s)[1]).bytes, ZeroHeader).header.Algorithm

C3_SignedMaterial ==
  (/\ pc = "decoded"
   /\ validator.family = "hs"
   /\ err = ErrNil)
  => /\ ThreeFields(input)
     /\ SignatureBytes(input).ok
     /\ SignatureBytes(input).bytes = HMAC(validator.hash, validator.Key, WireInput(input))

\* a token from the outside, its header field spelled with padding, is accepted
C3_CraftedAccepted ==
  /\ pc = "decoded"
  /\ origin = "craft"
  /\ validator.family = "hs"
  /\ err = ErrNil
  /\ ThreeFields(input)
  /\ Fields(input)[1] # TrimPad(Fields(input)[1])

\* a field that is base64url once padded and holds a JSON value
WellFormed(f) == padB64String(f).ok /\ JSONValue(padB64String(f).bytes).ok

\* the algorithms a constructor's switch names
OwnFamily(family) ==
  CASE family = "hs" -> {HS256, HS384, HS512}
    [] family = "rs" -> {RS256, RS384, RS512}
    [] family = "es" -> {ES256, ES384, ES512}
    [] OTHER -> {}

\* the signature field is the HS256 MAC of the wire input under no key in use
WrongHS256Signature(s) ==
  \A k \in HSKeyChoices \cup {Nil} :
    ~(SignatureBytes(s).ok /\ SignatureBytes(s).bytes = HMAC(SHA256, k, WireInput(s)))

(***************************************************************************)
(* C4  Field count                                                         *)
(***************************************************************************)
\* C4: Decode of an input that does not split on '.' into exactly three
\* fields returns ErrMalformedToken and does not invoke the validator.
C4_FieldCount ==
  (pc = "decoded" /\ ~ThreeFields(input))
  => (err = ErrMalformedToken /\ ~called)

\* a written token whose signature got a '.' is read as four fields
C4_FourFields ==
  /\ pc = "decoded"
  /\ origin = "tamper"
  /\ Len(Fields(input)) = 4
  /\ WellFormed(Fields(input)[1])
  /\ WellFormed(Fields(input)[2])
  /\ err = ErrMalformedToken

(***************************************************************************)
(* C5  Malformed header or payload                                         *)
(***************************************************************************)
\* C5: Decode of a three-field token whose header field or payload field is
\* not base64url once padded, or does not hold JSON, returns
\* ErrMalformedToken, not the error of the base64 or JSON decoder and not nil.
C5_MalformedField ==
  (/\ pc = "decoded"
   /\ ThreeFields(input)
   /\ (~WellFormed(Fields(input)[1]) \/ ~WellFormed(Fields(input)[2])))
  => err = ErrMalformedToken

\* the payload field is base64url of bytes that are not JSON
C5_PayloadNotJSON ==
  /\ pc = "decoded"
  /\ ThreeFields(input)
  /\ WellFormed(Fields(input)[1])
  /\ padB64String(Fields(input)[2]).ok
  /\ ~WellFormed(Fields(input)[2])
  /\ err = ErrMalformedToken

(***************************************************************************)
(* C6  Unknown algorithm on decode                                         *)
(***************************************************************************)
\* C6: Decode of a token whose header and payload fields are well formed and
\* whose header declares an algorithm that is not implemented returns
\* ErrAlgorithmNotImplemented, whatever the signature field holds.
C6_UnknownAlgorithm ==
  (/\ pc = "decoded"
   /\ ThreeFields(input)
   /\ WellFormed(Fields(input)[1])
   /\ WellFormed(Fields(input)[2])
   /\ DeclaredAlgorithm(input) = Unknown)
  => err = ErrAlgorithmNotImplemented

\* a token declaring an unknown algorithm is accepted
C6_UnknownAccepted ==
  /\ pc = "decoded"
  /\ validator.family = "none"
  /\ ThreeFields(input)
  /\ DeclaredAlgorithm(input) = Unknown
  /\ err = ErrNil

(***************************************************************************)
(* C7  Validator construction                                              *)
(***************************************************************************)
\* C7: NewHSValidator, NewRSValidator and NewESValidator return
\* ErrAlgorithmNotImplemented for an identifier outside their family and no
\* error for one of their family, and the validator's algorithm is the
\* identifier asked for in both cases.
C7_Construction ==
  (pc = "built" /\ validator.family \in {"hs", "rs", "es"})
  => /\ newErr = (IF requested \in OwnFamily(validator.family)
                  THEN ErrNil ELSE ErrAlgorithmNotImplemented)
     /\ validator.algorithm = requested

\* NewHSValidator built a validator for another family's identifier
C7_HSForeignBuilt ==
  /\ pc = "built"
  /\ validator.family = "hs"
  /\ requested = RS256
  /\ validator.hash = NoHash
  /\ newErr = ErrNil

(***************************************************************************)
(* C8  Decode verdict mapping                                              *)
(***************************************************************************)
\* C8: once parsing has succeeded, Decode returns nil exactly when the
\* validator answered (true, nil), ErrBadSignature when it answered
\* (false, nil), and the validator's own error whenever that is not nil.
C8_VerdictMapping ==
  (pc = "decoded" /\ called)
  => /\ (err = ErrNil) <=> (valid /\ verr = ErrNil)
     /\ (~valid /\ verr = ErrNil) => err = ErrBadSignature
     /\ verr # ErrNil => err = verr

\* the validator answered true together with an error
C8_ValidWithError ==
  /\ pc = "decoded"
  /\ called
  /\ validator.family = "stub"
  /\ valid
  /\ verr = ErrTestValidator
  /\ err = ErrTestValidator

(***************************************************************************)
(* C9  The none algorithm                                                  *)
(***************************************************************************)
\* C9: the none validator's validate answers (true, nil) for every token,
\* whatever its header, payload and signature (nil and garbage included).
C9_NoneAlwaysValid ==
  (/\ pc = "validated" \/ (pc = "decoded" /\ called)
   /\ validator.family = "none")
  => (valid /\ verr = ErrNil)

\* validate called on a token with a garbage signature and no raw fields
C9_NoneGarbage ==
  /\ pc = "validated"
  /\ validator.family = "none"
  /\ jwt0.Header.Algorithm = HS256
  /\ jwt0.headerRaw = Nil
  /\ jwt0.Payload = NilClaims
  /\ jwt0.Signature = << 27, 26, 29, BAD >>
  /\ valid

SignerAlgorithm(v) == IF v.family = "none" THEN None ELSE v.algorithm

\* validate was called, directly or by Decode
Validated == pc = "validated" \/ (pc = "decoded" /\ called)

\* the fields of a token other than its structured header and payload
SameRawFields(a, b) ==
  /\ a.Header.Algorithm = b.Header.Algorithm
  /\ a.headerRaw = b.headerRaw
  /\ a.payloadRaw = b.payloadRaw
  /\ a.Signature = b.Signature

(***************************************************************************)
(* C11  Wire format                                                        *)
(***************************************************************************)
\* C11: the string Encode writes has exactly three fields and no '=' in any
\* of them, for every payload and every algorithm.
C11_WireFormat ==
  (pc = "encoded" /\ err = ErrNil)
  => /\ ThreeFields(writer)
     /\ \A i \in 1..Len(writer) : writer[i] # PAD

\* the token an HS256 validator wrote ends with '='
C11_PaddedSignature ==
  /\ pc = "encoded"
  /\ err = ErrNil
  /\ validator.family = "hs"
  /\ validator.algorithm = HS256
  /\ ThreeFields(writer)
  /\ writer[Len(writer)] = PAD

(***************************************************************************)
(* C12  Signing is authoritative over the algorithm                        *)
(***************************************************************************)
\* C12: after a sign that succeeded, the token's Header.Algorithm is the
\* validator's algorithm (none for the none validator) whatever it was
\* before, and the header field that was signed, and the one Encode writes,
\* encodes that algorithm.
C12_SignSetsAlgorithm ==
  /\ (/\ pc = "signed"
      /\ err = ErrNil
      /\ validator.family \in {"none", "hs", "rs", "es"})
     => /\ jwt.Header.Algorithm = SignerAlgorithm(validator)
        /\ validator.family # "none" =>
             /\ jwt.headerRaw # Nil
             /\ DecodeHeaderJSON(padB64String(jwt.headerRaw).bytes, ZeroHeader)
                  .header.Algorithm = validator.algorithm
  /\ (/\ pc = "encoded"
      /\ err = ErrNil
      /\ validator.family \in {"none", "hs", "rs", "es"})
     => /\ jwt.Header.Algorithm = SignerAlgorithm(validator)
        /\ DeclaredAlgorithm(writer) = SignerAlgorithm(validator)

\* a token naming RS256 was signed by an HS256 validator
C12_AlgorithmReplaced ==
  /\ pc = "signed"
  /\ signs = 1
  /\ err = ErrNil
  /\ validator.family = "hs"
  /\ validator.algorithm = HS256
  /\ jwt0.Header.Algorithm = RS256
  /\ jwt.Header.Algorithm = HS256

(***************************************************************************)
(* C13  validate is read-only                                              *)
(***************************************************************************)
\* C13: a validate call of any validator leaves the token's
\* Header.Algorithm, headerRaw, payloadRaw and Signature as they were.
C13_ValidateReadOnly ==
  (pc = "validated" /\ verr # Panic) => SameRawFields(jwt, jwt0)

\* the RSA validate replaced the raw header of the token
C13_RSRewrites ==
  /\ pc = "validated"
  /\ validator.family = "rs"
  /\ validator.PublicKey # 0
  /\ verr # Panic
  /\ jwt0.headerRaw # Nil
  /\ jwt.headerRaw # jwt0.headerRaw

(***************************************************************************)
(* C14  HMAC without a key                                                 *)
(***************************************************************************)
\* C14: an HMAC validator whose Key is nil or empty answers false to every
\* token, the one signed under the empty key included.
C14_FailsClosed ==
  (/\ Validated
   /\ validator.family = "hs"
   /\ Str(validator.Key) = << >>)
  => ~valid

\* a validator without a key accepts the token it wrote
C14_EmptyKeyAccepted ==
  /\ pc = "decoded"
  /\ origin = "pipe"
  /\ called
  /\ validator.family = "hs"
  /\ validator.Key = Nil
  /\ valid
  /\ err = ErrNil

(***************************************************************************)
(* C15  Verification without a public key                                  *)
(***************************************************************************)
\* C15: with PublicKey nil, the RSA validate answers (false,
\* ErrBadSignature) and the ECDSA validate answers false with an error, for
\* every token and signature; neither answers true or aborts.
C15_NoPublicKey ==
  (/\ pc = "validated"
   /\ validator.family \in {"rs", "es"}
   /\ Supported(validator)
   /\ validator.PublicKey = 0)
  => /\ ~valid
     /\ verr # ErrNil
     /\ verr # Panic
     /\ validator.family = "rs" => verr = ErrBadSignature

\* the ECDSA validate without a public key aborts on a base64 signature
C15_ESAborts ==
  /\ pc = "validated"
  /\ validator.family = "es"
  /\ validator.algorithm = ES256
  /\ validator.PublicKey = 0
  /\ padB64String(Str(jwt0.Signature)).ok
  /\ jwt0.Signature # Nil
  /\ verr = Panic

\* a validator of the package, not a caller's own
OfThePackage(v) == v.family \in {"none", "hs", "rs", "es"}

\* the bytes a signature field stands for, split in half as validate does
Halves(sig) ==
  LET b == padB64String(Str(sig)).bytes
  IN [r |-> SubSeq(b, 1, Len(b) \div 2), s |-> SubSeq(b, (Len(b) \div 2) + 1, Len(b))]

(***************************************************************************)
(* C16  Signing without a private key                                      *)
(***************************************************************************)
\* C16: the RSA and ECDSA sign with a nil private key return an error other
\* than ErrBadSignature, do not abort and leave the token's
\* Header.Algorithm, raw fields and Signature unchanged; Encode returns
\* that error.
C16_NilPrivateKey ==
  (/\ pc \in {"signed", "encoded"}
   /\ validator.family \in {"rs", "es"}
   /\ Supported(validator)
   /\ validator.PrivateKey = 0)
  => /\ err \notin {ErrNil, ErrBadSignature, Panic}
     /\ pc = "signed" => SameRawFields(jwt, jwt0)

\* the RSA sign without a private key aborts
C16_RSAborts ==
  /\ pc = "signed"
  /\ validator.family = "rs"
  /\ validator.algorithm = RS256
  /\ validator.PrivateKey = 0
  /\ err = Panic
  /\ jwt.headerRaw # jwt0.headerRaw

(***************************************************************************)
(* C17  Encode failure                                                     *)
(***************************************************************************)
\* C17: when the validator's sign returns an error, Encode returns that
\* same error and writes nothing.
C17_EncodeFailure ==
  pc = "encoded"
  => /\ (validator.family = "stub" /\ validator.retErr # ErrNil)
          => err = validator.retErr
     /\ (validator.family = "es" /\ validator.PrivateKey = 0)
          => err = ErrNilPrivateKey
     /\ err # ErrNil => writer = << >>

\* Encode with a validator whose sign fails
C17_SignFailed ==
  /\ pc = "encoded"
  /\ validator.family = "stub"
  /\ validator.retErr = ErrTestValidator
  /\ err = ErrTestValidator
  /\ writer = << >>

(***************************************************************************)
(* C18  No partial result on early failure                                 *)
(***************************************************************************)
\* C18: when Decode fails at the split or at the header field, the
\* destination is left as it was, even if the payload field is well formed.
C18_NoPartialResult ==
  (/\ pc = "decoded"
   /\ (~ThreeFields(input) \/ ~WellFormed(Fields(input)[1])))
  => dst = dst0

\* a bad header field before a payload field that would change the destination
C18_BadHeaderGoodPayload ==
  /\ pc = "decoded"
  /\ ThreeFields(input)
  /\ ~WellFormed(Fields(input)[1])
  /\ WellFormed(Fields(input)[2])
  /\ DecodeClaimsJSON(padB64String(Fields(input)[2]).bytes, dst0).v # dst0
  /\ err = ErrMalformedToken
  /\ dst = dst0

(***************************************************************************)
(* C19  Raw fields across signing                                          *)
(***************************************************************************)
\* C19: after any sequence of sign calls on one token, headerRaw and
\* payloadRaw are not nil and are the base64url of the compact JSON of the
\* token's Header, with the algorithm of the last signer, and Payload, and
\* Signature is what the last sign alone produces.
C19_RawConsistent ==
  (/\ pc = "signed"
   /\ err = ErrNil
   /\ OfThePackage(validator))
  => /\ jwt.Header.Algorithm = SignerAlgorithm(validator)
     /\ jwt.headerRaw # Nil
     /\ jwt.payloadRaw # Nil
     /\ jwt.headerRaw = Unpadded(MarshalHeader(jwt.Header))
     /\ jwt.payloadRaw = Unpadded(MarshalClaims(jwt.Payload))
     /\ \E nonce \in ESNonces :
          jwt.Signature =
            sign(validator,
                 [ZeroJWT EXCEPT !.Header = jwt0.Header, !.Payload = jwt0.Payload],
                 nonce).jwt.Signature

\* a token signed with HS256 and then with none keeps the HS256 raw header
C19_StaleHeader ==
  /\ pc = "signed"
  /\ signs = 2
  /\ err = ErrNil
  /\ validator.family = "none"
  /\ jwt.Header.Algorithm = None
  /\ jwt.headerRaw =
       Unpadded(MarshalHeader([Algorithm |-> HS256, ContentType |-> "JWT"]))

(***************************************************************************)
(* C20  ECDSA signature packing                                            *)
(***************************************************************************)
\* C20: the bytes the ECDSA sign packs are twice the coordinate width long,
\* and splitting them in half recovers r and s, leading zero bytes or not.
C20_FixedWidth ==
  (/\ pc \in {"signed", "encoded"}
   /\ validator.family = "es"
   /\ err = ErrNil)
  => /\ padB64String(Str(jwt.Signature)).ok
     /\ Len(padB64String(Str(jwt.Signature)).bytes) = 2 * ESWidth
     /\ ESVerify(validator.PrivateKey, Sum(validator.hash, MagicString(jwt)),
                 SetBytes(Halves(jwt.Signature).r), SetBytes(Halves(jwt.Signature).s))

\* a signature whose r is one byte short
C20_ShortR ==
  /\ pc = "signed"
  /\ validator.family = "es"
  /\ err = ErrNil
  /\ Len(padB64String(Str(jwt.Signature)).bytes) = 2 * ESWidth - 1
  /\ Len(SetBytes(Halves(jwt.Signature).r)) = 1

\* the ECDSA validate ran with a public key on a signature that decodes
ESDecoded ==
  /\ Validated
  /\ validator.family = "es"
  /\ Supported(validator)
  /\ validator.PublicKey # 0
  /\ jwt.Signature # Nil
  /\ B64Decode(jwt.Signature).ok

\* the number of bytes a signature decodes to
DecodedLen(sig) == Len(B64Decode(sig).bytes)

\* the two halves validate cuts the decoded signature in
Cut(sig) ==
  LET b == B64Decode(sig).bytes
  IN [r |-> SetBytes(SubSeq(b, 1, Len(b) \div 2)),
      s |-> SetBytes(SubSeq(b, (Len(b) \div 2) + 1, Len(b)))]

Verifying(v) ==
  /\ Supported(v)
  /\ \/ v.family = "hs"
     \/ (v.family \in {"rs", "es"} /\ v.PublicKey # 0)

\* the answer of the validator to the same token with the '=' its signature
\* field lacks added
PaddedAnswer(v, t) == validate(v, [t EXCEPT !.Signature = AddPadding(Str(t.Signature))])

(***************************************************************************)
(* C22  Padding of the signature field                                     *)
(***************************************************************************)
\* C22: the HMAC, RSA and ECDSA validate add the missing '=' to the signature
\* field before decoding it, so a signature is answered the same with and
\* without its padding.
C22_PaddingNormalized ==
  (/\ Validated
   /\ Verifying(validator)
   /\ jwt.Signature # Nil
   /\ padB64String(Str(jwt.Signature)).ok)
  => /\ valid = PaddedAnswer(validator, jwt).valid
     /\ verr = PaddedAnswer(validator, jwt).err

\* the RSA validate does not decode its own signature as written, without
\* padding, and decodes it with the padding put back
C22_RSUnpaddedRejected ==
  /\ pc = "decoded"
  /\ called
  /\ origin = "pipe"
  /\ validator.family = "rs"
  /\ Verifying(validator)
  /\ jwt.Signature # AddPadding(jwt.Signature)
  /\ verr = CorruptInputError
  /\ PaddedAnswer(validator, jwt).err = ErrBadSignature

\* the token validate was handed
Handed == IF pc = "validated" THEN jwt0 ELSE jwt

\* the signature field as the validator's own decoder takes it: the HMAC
\* validate pads it first, the RSA and ECDSA validate decode it as it stands,
\* and the ECDSA validate turns a nil signature away before decoding
Decodes(v, sig) ==
  CASE v.family = "hs" -> padB64String(Str(sig)).ok
    [] v.family = "rs" -> B64Decode(Str(sig)).ok
    [] v.family = "es" -> sig # Nil /\ B64Decode(Str(sig)).ok
    [] OTHER -> TRUE

(***************************************************************************)
(* C23  Malformed signature and wrong signature                            *)
(***************************************************************************)
\* C23: for a validator with the key it verifies with, on a token of its
\* algorithm, a signature that does not decode is answered false with an
\* error other than the answer to a signature that decodes and is wrong:
\* (false, ErrMalformedToken) against (false, nil) for HMAC, an error other
\* than ErrBadSignature against (false, ErrBadSignature) for RSA, an error
\* against (false, nil) for ECDSA.
C23_MalformedDistinguished ==
  (/\ Validated
   /\ Verifying(validator)
   /\ validator.family = "hs" => Handed.Header.Algorithm = validator.algorithm)
  => IF ~Decodes(validator, Handed.Signature)
     THEN /\ ~valid
          /\ verr # ErrNil
          /\ validator.family = "hs" => verr = ErrMalformedToken
          /\ validator.family = "rs" => verr # ErrBadSignature
     ELSE ~valid =>
          /\ validator.family \in {"hs", "es"} => verr = ErrNil
          /\ validator.family = "rs" => verr = ErrBadSignature

\* the RSA validate on a signature that is not base64
C23_RSUndecodable ==
  /\ pc = "validated"
  /\ validator.family = "rs"
  /\ Verifying(validator)
  /\ ~Decodes(validator, jwt0.Signature)
  /\ ~valid
  /\ verr = CorruptInputError

(***************************************************************************)
(* C24  Precedence of the errors                                           *)
(***************************************************************************)
\* C24: Decode reports the first failing stage of split, header, payload,
\* algorithm, signature: ErrMalformedToken for a malformed header whatever
\* follows it, ErrMalformedToken for a malformed payload under a header that
\* declares an unknown algorithm, ErrAlgorithmNotImplemented for an unknown
\* algorithm with a signature that is not base64; and the validator is
\* invoked only after header and payload have parsed.
C24_StageOrder ==
  pc = "decoded"
  => /\ (~ThreeFields(input) \/ ~WellFormed(Fields(input)[1]))
          => err = ErrMalformedToken
     /\ (/\ ThreeFields(input)
         /\ WellFormed(Fields(input)[1])
         /\ DeclaredAlgorithm(input) = Unknown
         /\ ~WellFormed(Fields(input)[2]))
          => err = ErrMalformedToken
     /\ (/\ ThreeFields(input)
         /\ WellFormed(Fields(input)[1])
         /\ WellFormed(Fields(input)[2])
         /\ DeclaredAlgorithm(input) = Unknown
         /\ ~SignatureBytes(input).ok)
          => err = ErrAlgorithmNotImplemented
     /\ called
          => /\ ThreeFields(input)
             /\ WellFormed(Fields(input)[1])
             /\ WellFormed(Fields(input)[2])

\* the RSA validator reports the signature of a token of an unknown algorithm
C24_SignatureBeforeAlgorithm ==
  /\ pc = "decoded"
  /\ called
  /\ validator.family = "rs"
  /\ Verifying(validator)
  /\ ThreeFields(input)
  /\ DeclaredAlgorithm(input) = Unknown
  /\ ~SignatureBytes(input).ok
  /\ err = CorruptInputError

\* the three raw fields of a token are the three fields of a string
RawIs(t, s) ==
  /\ t.headerRaw = Fields(s)[1]
  /\ t.payloadRaw = Fields(s)[2]
  /\ t.Signature = Fields(s)[3]

(***************************************************************************)
(* C25  Raw fields as parsed                                               *)
(***************************************************************************)
\* C25: after parseJWT succeeds on h.p.s the token's headerRaw is h, its
\* payloadRaw is p and its Signature is s, byte for byte; this is the token
\* the validator is handed, and the token after Decode when the validator is
\* not the RSA one, which writes the raw fields again.
C25_VerbatimRaw ==
  (pc = "decoded" /\ called)
  => /\ ThreeFields(input)
     /\ parseJWT(input, dst0).err = ErrNil
     /\ RawIs(parseJWT(input, dst0).jwt, input)
     /\ validator.family # "rs" => RawIs(jwt, input)

\* a token whose header and signature fields carry their padding is parsed
C25_PaddedFieldsKept ==
  /\ pc = "decoded"
  /\ called
  /\ validator.family = "hs"
  /\ Fields(input)[1] # TrimPad(Fields(input)[1])
  /\ Fields(input)[3] # TrimPad(Fields(input)[3])
  /\ RawIs(jwt, input)

\* what Decode answers for the written token standing alone in a reader
Alone(d) == Decode([reader |-> writer, validator |-> validator], d)

(***************************************************************************)
(* C26  Decoding a stream                                                  *)
(***************************************************************************)
\* C26: over a reader that holds n tokens separated by single spaces, each of
\* which Decode accepts when it stands alone, every one of n successive calls
\* of Decode parses one token exactly, without the space, and returns nil.
C26_StreamDecoding ==
  (/\ pc = "decoded"
   /\ origin = "stream"
   /\ Alone(dst0).err = ErrNil)
  => /\ err = ErrNil
     /\ input = writer
     /\ dst = Alone(dst0).v
     /\ reader = (IF pending = 0 THEN << >> ELSE Tokens(writer, pending))

\* the second call finds the reader empty
C26_SecondTokenLost ==
  /\ pc = "decoded"
  /\ origin = "stream"
  /\ validator.family = "none"
  /\ pending = 0
  /\ Alone(dst0).err = ErrNil
  /\ input = << >>
  /\ err = ErrMalformedToken

(***************************************************************************)
(* C27  The HMAC validator holds to its algorithm                          *)
(***************************************************************************)
\* C27: an HMAC validator built for an algorithm answers (false,
\* ErrAlgorithmNotImplemented) for every token whose header names another
\* algorithm, whatever the signature; a Decoder with an HMAC validator
\* returns that error for it and accepts no token that declares none or
\* another HMAC algorithm.
C27_AlgorithmPinned ==
  /\ (/\ Validated
      /\ validator.family = "hs"
      /\ Handed.Header.Algorithm # validator.algorithm)
     => /\ ~valid
        /\ verr = ErrAlgorithmNotImplemented
        /\ pc = "decoded" => err = ErrAlgorithmNotImplemented
  /\ (/\ pc = "decoded"
      /\ validator.family = "hs"
      /\ err = ErrNil)
     => DeclaredAlgorithm(input) = validator.algorithm

\* a token that declares none, with an empty signature, is refused
C27_NoneRefused ==
  /\ pc = "decoded"
  /\ validator.family = "hs"
  /\ validator.algorithm = HS256
  /\ validator.Key # Nil
  /\ DeclaredAlgorithm(input) = None
  /\ Fields(input)[3] = << >>
  /\ called
  /\ ~valid
  /\ err = ErrAlgorithmNotImplemented

\* the destination after the payload field of a string is decoded into it
PayloadInto(s, d) == DecodeClaimsJSON(padB64String(Fields(s)[2]).bytes, d).v

(***************************************************************************)
(* C28  The destination is written before the signature is checked         *)
(***************************************************************************)
\* C28: after a Decode that returns ErrBadSignature or
\* ErrAlgorithmNotImplemented the destination holds the claims of the token
\* that was refused, decoded into it before the validator ran.
C28_WrittenBeforeVerified ==
  (/\ pc = "decoded"
   /\ err \in {ErrBadSignature, ErrAlgorithmNotImplemented})
  => /\ called
     /\ ThreeFields(input)
     /\ dst = PayloadInto(input, dst0)

\* the claims of a token with a wrong signature replace the destination's
C28_UnverifiedClaims ==
  /\ pc = "decoded"
  /\ validator.family = "hs"
  /\ err = ErrBadSignature
  /\ dst # dst0
  /\ dst = PayloadInto(input, dst0)

(***************************************************************************)
(* C29  The field codec                                                    *)
(***************************************************************************)
\* C29: the unpadded base64url of every byte string, which lacks no, two or
\* one '=' (length 0, 2 or 3 modulo 4), is decoded by padB64String to the
\* byte string; every field of length 1 modulo 4 is rejected.
C29_FieldRoundTrip ==
  /\ codec.stage = "decoded"
     => /\ Len(codec.field) % 4 = (CASE Len(codec.x) % 3 = 0 -> 0
                                     [] Len(codec.x) % 3 = 1 -> 2
                                     [] OTHER -> 3)
        /\ codec.ok
        /\ codec.bytes = codec.x
  /\ (codec.stage \in {"decoded", "read"} /\ Len(codec.field) % 4 = 1)
     => ~codec.ok

\* two bytes, written as three characters, come back
C29_OnePadMissing ==
  /\ codec.stage = "decoded"
  /\ Len(codec.x) = 2
  /\ Len(codec.field) = 3
  /\ codec.ok
  /\ codec.bytes = codec.x

\* the validator as its constructor returns it for the identifier it was
\* asked for, with the keys the caller has set
Configured ==
  CASE validator.family = "hs" ->
         [NewHSValidator(requested).v EXCEPT !.Key = validator.Key]
    [] validator.family = "rs" ->
         [NewRSValidator(requested).v EXCEPT !.PublicKey = validator.PublicKey,
                                             !.PrivateKey = validator.PrivateKey]
    [] validator.family = "es" ->
         [NewESValidator(requested).v EXCEPT !.PublicKey = validator.PublicKey,
                                             !.PrivateKey = validator.PrivateKey]
    [] validator.family = "none" -> nonevalidator
    [] OTHER -> StubValidator(validator.retValid, validator.retErr)

\* the outcome of the last Decode is that of a new Decoder, with the validator
\* as configured, on the string that was read
ReplayedDecode ==
  \E f \in {Decode([reader |-> input, validator |-> Configured], dst0)} :
     /\ err = f.err
     /\ dst = f.v
     /\ valid = f.valid
     /\ verr = f.verr

\* the outcome of the last Encode is one a new Encoder, with the validator as
\* configured, has on the same claims
ReplayedEncode ==
  \E nonce \in ESNonces :
     \E f \in {Encode([writer |-> << >>, validator |-> Configured], src, nonce)} :
        /\ err = f.err
        /\ writer = f.enc.writer

=============================================================================
